---- MODULE Spec2Model ----
(***************************************************************************)
(* Evaluation engine of MECHBench (src/sob/physical_models).               *)
(*                                                                         *)
(* A problem instance (AbstractPhysicalModel, concrete family StarBox) is  *)
(* constructed with a requested output (a metric name or a list of names)  *)
(* and an identity policy.  Each __call__ writes an input deck into a      *)
(* workspace directory, then resolves the requested metrics, running the   *)
(* OpenRadioss starter / engine when the recorded sim_status requires it.  *)
(*                                                                         *)
(* The methods of the class are operators over a "machine" record          *)
(*      m = [self, fs, exc, val]                                           *)
(* self : the instance's attributes, fs : the workspace directories on     *)
(* disk, exc : the exception in flight ("none" when there is none) and     *)
(* val : the value the last method returned.                               *)
(***************************************************************************)
EXTENDS Integers, Sequences, FiniteSets, TLC

VARIABLES obj,               \* instance -> its attributes (self)
          dirs,              \* workspace directories under os.getcwd()
          instance_counter,  \* class attribute, one per family
          evalNo             \* number of __call__ invocations made so far

vars == <<obj, dirs, instance_counter, evalNo>>

(***************************************************************************)
(* Bounds of the model                                                     *)
(***************************************************************************)
MaxLen == 2      \* longest requested metric list
MaxEvals == 2    \* __call__ invocations per behaviour
MaxDir == 3      \* largest deck id that has a directory in the model
MaxDim == 2      \* dimension of the problems constructed

Insts == {1}
Families == {"StarBox"}
Dims == {MaxDim}
XVals == {-6, -5, 5, 6}              \* components offered for a design vector
ExplicitIds == -1..2                 \* deck_id arguments offered to __call__
IntrusionValues == {60, 61}          \* intrusions an engine run may produce

(***************************************************************************)
(* Module-level tables of abstractPhysicalModel.py                         *)
(***************************************************************************)
PRINCIPAL_OUTPUTS ==
    {"mass", "absorbed_energy", "intrusion", "mean_impact_force", "max_impact_force"}

COMPOSITE_OUTPUTS ==
    {"specific_energy_absorbed", "load_uniformity", "penalized_sea", "penalized_mass"}

PROBLEM_SPECIFIC_OUTPUTS == {"penalized_sea", "penalized_mass"}

\* Names a caller may put in a request: the nine metric names, a name that
\* differs from a metric name by case only, and a name that is no metric.
Names == PRINCIPAL_OUTPUTS \cup COMPOSITE_OUTPUTS \cup {"MASS", "bogus"}

\* str.strip().lower()
StripLower(name) == IF name = "MASS" THEN "mass" ELSE name

Recognized(name) ==
    \/ StripLower(name) \in COMPOSITE_OUTPUTS
    \/ StripLower(name) \in PRINCIPAL_OUTPUTS
    \/ StripLower(name) \in PROBLEM_SPECIFIC_OUTPUTS

search_space == <<-5, 5>>

(***************************************************************************)
(* Sequence helpers (0-based indices, as Python's list methods)            *)
(***************************************************************************)
Pop(s, idx) == [k \in 1..(Len(s) - 1) |-> IF k <= idx THEN s[k] ELSE s[k + 1]]

Insert(s, idx, v) ==
    LET at == IF idx > Len(s) THEN Len(s) ELSE idx
    IN  [k \in 1..(Len(s) + 1) |->
            IF k <= at THEN s[k] ELSE IF k = at + 1 THEN v ELSE s[k - 1]]

\* list.index(v): 0-based position of the first occurrence
Index(s, v) == (CHOOSE k \in 1..Len(s) : s[k] = v /\ \A j \in 1..(k - 1) : s[j] # v) - 1

Contains(s, v) == \E k \in 1..Len(s) : s[k] = v

SeqsUpTo(S, n) == UNION {[1..k -> S] : k \in 0..n}

(***************************************************************************)
(* Files of one workspace directory                                        *)
(*   deck : tag of the evaluation whose input deck is in the directory     *)
(*   out  : tag of the deck the starter summary (.out) was computed from   *)
(*   csv  : the time-history table the engine run produced                 *)
(* Tag -1 : absent, 0 : left by an earlier process, n >= 1 : n-th __call__ *)
(***************************************************************************)
NoTable == [present |-> FALSE, ev |-> -1, intr |-> 0]

NoDir == [exists |-> FALSE, deck |-> -1, out |-> -1, csv |-> NoTable]

LeftoverDir ==
    [exists |-> TRUE, deck |-> 0, out |-> 0,
     csv |-> [present |-> TRUE, ev |-> 0, intr |-> 50]]

\* f'{self.__class__.__name__.lower()}_deck{self.deck_id}'
Lower(fam) == IF fam = "StarBox" THEN "starbox" ELSE fam

DirNameOf(fam, id) == <<Lower(fam), id>>

DirNames == {DirNameOf(f, n) : f \in Families, n \in 1..MaxDir}

Exists(fs, d) == d \in DOMAIN fs /\ fs[d].exists

(***************************************************************************)
(* Values returned by the metric methods: the metric computed, the tags    *)
(* of the evaluations whose artifacts it was computed from, and the        *)
(* intrusion read from the table (0 for the other metrics).                *)
(***************************************************************************)
Value(name, src, num) == [name |-> name, src |-> src, num |-> num, nan |-> FALSE]

NaN == [name |-> "nan", src |-> {}, num |-> 0, nan |-> TRUE]

NoValue == [name |-> "none", src |-> {}, num |-> 0, nan |-> FALSE]

\* the last run_simulation of the running __call__: what it was asked, the
\* attributes it found, and the return codes of the two processes
\* (-1: the process was not started)
NoRun == [kind |-> "none", idBefore |-> 0, statusBefore |-> 0,
          tableBefore |-> NoTable, starterRc |-> -1, engineRc |-> -1]

NoArg == [lenOk |-> TRUE, rangeOk |-> TRUE, idOk |-> TRUE]

NoOutput == [kind |-> "none", names |-> <<>>]

NoReturn == [kind |-> "unset", vals |-> <<>>]

\* attributes of an instance that has not been constructed
Unbuilt ==
    [pc |-> "none", family |-> "StarBox", dimension |-> 1, seq |-> TRUE,
     output_data |-> NoOutput, deck_id |-> -1, sim_status |-> 0,
     output_data_frame |-> NoTable,
     \* position of the running __call__
     todo |-> <<>>, result |-> <<>>, ret |-> NoReturn,
     outcome |-> "none", err |-> "none",
     \* history of the running __call__
     curEval |-> 0, wsName |-> <<"", 0>>, idBefore |-> 0,
     fullRuns |-> 0, starterRuns |-> 0, touched |-> {}, lastRun |-> NoRun,
     arg |-> NoArg, repeat |-> FALSE, prevWs |-> <<"", 0>>,
     \* the output_data argument of the constructor, where a run notes it
     request |-> NoOutput]

M(self, fs) == [self |-> self, fs |-> fs, exc |-> "none", val |-> NoValue]

Raise(m, e) == [m EXCEPT !.exc = e]

\* statement sequencing: g is skipped when an exception is in flight
Then(m, g(_)) == IF m.exc # "none" THEN m ELSE g(m)

DirName(self) == DirNameOf(self.family, self.deck_id)

(***************************************************************************)
(* AbstractPhysicalModel: property setters and input validation            *)
(***************************************************************************)
\* variant: any integer is accepted as the new id
deck_id_setter_unchecked(m, new_deck_id) ==
    [m EXCEPT !.self.deck_id = new_deck_id]

deck_id_setter(m, new_deck_id) ==
    IF new_deck_id <= 0
    THEN Raise(m, "ValueError")
    ELSE [m EXCEPT !.self.deck_id = new_deck_id]

dimension_setter(m, new_dimension) ==
    IF new_dimension <= 0
    THEN Raise(m, "ValueError")
    ELSE [m EXCEPT !.self.dimension = new_dimension]

\* the indices of the unrecognized names, ascending (0-based)
RECURSIVE IdxToRemove(_, _)
IdxToRemove(names, k) ==
    IF k > Len(names) THEN <<>>
    ELSE IF ~Recognized(names[k])
         THEN <<k - 1>> \o IdxToRemove(names, k + 1)
         ELSE IdxToRemove(names, k + 1)

\* for idx in idx_to_remove: new_output_data.pop(idx), IndexError swallowed
RECURSIVE PopEach(_, _)
PopEach(names, idxs) ==
    IF idxs = <<>> THEN names
    ELSE IF Head(idxs) < Len(names)
         THEN PopEach(Pop(names, Head(idxs)), Tail(idxs))
         ELSE PopEach(names, Tail(idxs))

output_data_setter(m, new_output_data) ==
    IF new_output_data.kind = "str"
    THEN IF Recognized(new_output_data.names[1])
         THEN [m EXCEPT !.self.output_data = new_output_data]
         ELSE Raise(m, "ValueError")
    ELSE IF new_output_data.kind = "list"
    THEN [m EXCEPT !.self.output_data =
             [kind |-> "list",
              names |-> PopEach(new_output_data.names,
                                IdxToRemove(new_output_data.names, 1))]]
    ELSE IF new_output_data.kind = "tuple"
    \* tuple has no pop: the AttributeError is swallowed, nothing is removed
    THEN [m EXCEPT !.self.output_data = new_output_data]
    ELSE m


\* variant: the upper bound of the search space is not checked
validate_lower_only(m, variable_array) ==
    IF Len(variable_array) # m.self.dimension
    THEN Raise(m, "ValueError")
    ELSE IF \E k \in 1..Len(variable_array) :
                ~(search_space[1] <= variable_array[k])
         THEN Raise(m, "ValueError")
         ELSE m

_validate_variable_array(m, variable_array) ==
    IF Len(variable_array) # m.self.dimension
    THEN Raise(m, "ValueError")
    ELSE IF \E k \in 1..Len(variable_array) :
                ~(search_space[1] <= variable_array[k]
                  /\ variable_array[k] <= search_space[2])
         THEN Raise(m, "ValueError")
         ELSE m

(***************************************************************************)
(* StarBox                                                                 *)
(***************************************************************************)
forbidden_output_data(fam) ==
    CASE fam = "StarBox" -> {"penalized_mass"}
      [] fam = "ThreePointBending" -> {"penalized_sea"}
      [] fam = "CrashTube" -> {"penalized_sea", "penalized_mass",
                               "absorbed_energy", "specific_energy_absorbed"}
      [] OTHER -> {}

\* variant: only a request given as a single string is checked
StarBox_init_str_only(m, dim, seqFlag, output_data, counter) ==
    LET od == IF output_data.kind = "none"
              THEN [kind |-> "str", names |-> <<"penalized_sea">>]
              ELSE output_data
        forbidden ==
            /\ output_data.kind = "str"
            /\ output_data.names[1] \in forbidden_output_data("StarBox")
        base == [m EXCEPT !.self.family = "StarBox", !.self.seq = seqFlag,
                          !.self.deck_id = -1, !.self.sim_status = 0,
                          !.self.output_data_frame = NoTable]
        m1 == dimension_setter(base, dim)
        m2 == Then(m1, LAMBDA mm : output_data_setter(mm, od))
        m3 == Then(m2, LAMBDA mm :
                  IF seqFlag THEN deck_id_setter(mm, counter) ELSE mm)
    IN  IF forbidden THEN Raise(m, "ValueError") ELSE m3

StarBox_init(m, dim, seqFlag, output_data, counter) ==
    LET od == IF output_data.kind = "none"
              THEN [kind |-> "str", names |-> <<"penalized_sea">>]
              ELSE output_data
        forbidden ==
            /\ output_data.kind \in {"str", "list", "tuple"}
            /\ \E k \in 1..Len(output_data.names) :
                  output_data.names[k] \in forbidden_output_data("StarBox")
        base == [m EXCEPT !.self.family = "StarBox", !.self.seq = seqFlag,
                          !.self.deck_id = -1, !.self.sim_status = 0,
                          !.self.output_data_frame = NoTable]
        m1 == dimension_setter(base, dim)
        m2 == Then(m1, LAMBDA mm : output_data_setter(mm, od))
        m3 == Then(m2, LAMBDA mm :
                  IF seqFlag THEN deck_id_setter(mm, counter) ELSE mm)
    IN  IF forbidden THEN Raise(m, "ValueError") ELSE m3

(***************************************************************************)
(* CrashTube and ThreePointBending: the constructors.  Both call the base  *)
(* constructor after their own check of the requested output.              *)
(***************************************************************************)
AbstractPhysicalModel_init(m, fam, dim, output_data, seqFlag) ==
    LET base == [m EXCEPT !.self.family = fam, !.self.seq = seqFlag,
                          !.self.deck_id = -1, !.self.sim_status = 0,
                          !.self.output_data_frame = NoTable]
        m1 == dimension_setter(base, dim)
    IN  Then(m1, LAMBDA mm : output_data_setter(mm, output_data))

CrashTube_init(m, dim, seqFlag, output_data, counter) ==
    LET od == IF output_data.kind = "none"
              THEN [kind |-> "str", names |-> <<"load_uniformity">>]
              ELSE output_data
        forbidden ==
            /\ output_data.kind \in {"str", "list", "tuple"}
            /\ \E k \in 1..Len(output_data.names) :
                  output_data.names[k] \in forbidden_output_data("CrashTube")
        m1 == AbstractPhysicalModel_init(m, "CrashTube", dim, od, seqFlag)
        m2 == Then(m1, LAMBDA mm :
                  IF seqFlag THEN deck_id_setter(mm, counter) ELSE mm)
    IN  IF forbidden THEN Raise(m, "ValueError") ELSE m2

\* variable_ranges_map = { ii + 1 : ... for ii in range(40)}
ThreePointBendingMaxDim == 40

\* the constructor takes no identity policy: every call is given its id
ThreePointBending_init(m, dim, output_data) ==
    LET od == IF output_data.kind = "none"
              THEN [kind |-> "str", names |-> <<"penalized_mass">>]
              ELSE output_data
        forbidden ==
            /\ output_data.kind \in {"str", "list", "tuple"}
            /\ \E k \in 1..Len(output_data.names) :
                  output_data.names[k] \in
                      forbidden_output_data("ThreePointBending")
        m1 == AbstractPhysicalModel_init(m, "ThreePointBending", dim, od, FALSE)
        m2 == Then(m1, LAMBDA mm :
                  IF mm.self.dimension \in 1..ThreePointBendingMaxDim
                  THEN mm
                  ELSE Raise(mm, "KeyError"))
    IN  IF forbidden THEN Raise(m, "ValueError") ELSE m2

(***************************************************************************)
(* run_radioss (solvers.py).  sOk / eOk : whether the starter / the engine *)
(* process ends with return code 0; iv : the intrusion the engine's table  *)
(* shows.  The engine needs the starter's restart file, so it ends with a  *)
(* non-zero code whenever the starter did.                                 *)
(***************************************************************************)
\* RunOpenRadioss.delete_previous_results: start-of-run clearing
delete_previous_results(fs, d) ==
    [fs EXCEPT ![d].out = -1, ![d].csv = NoTable]

\* subprocess.run(..., stderr=subprocess.STDOUT).stderr
starter_stderr(sOk) == "None"


\* variant: the engine's return code is not checked (as sob/solver.py)
run_radioss_unchecked(m, d, runStarter, sOk, eOk, iv) ==
    IF ~Exists(m.fs, d)
    THEN Raise(m, "FileNotFoundError")
    ELSE
    LET cleaned == delete_previous_results(m.fs, d)
        started == IF sOk THEN [cleaned EXCEPT ![d].out = cleaned[d].deck]
                          ELSE cleaned
        m1 == [m EXCEPT !.fs = started,
                        !.self.lastRun.starterRc = IF sOk THEN 0 ELSE 1]
        returncode == IF sOk /\ eOk THEN 0 ELSE 1
        m2 == [m1 EXCEPT !.self.lastRun.engineRc = returncode]
    IN  IF runStarter
        THEN m1
        ELSE IF returncode # 0
        THEN m2
        ELSE [m2 EXCEPT !.fs[d].csv =
                 [present |-> TRUE, ev |-> started[d].deck, intr |-> iv]]

run_radioss(m, d, runStarter, sOk, eOk, iv) ==
    IF ~Exists(m.fs, d)
    THEN Raise(m, "FileNotFoundError")
    ELSE
    LET cleaned == delete_previous_results(m.fs, d)
        started == IF sOk THEN [cleaned EXCEPT ![d].out = cleaned[d].deck]
                          ELSE cleaned
        m1 == [m EXCEPT !.fs = started,
                        !.self.lastRun.starterRc = IF sOk THEN 0 ELSE 1]
        returncode == IF sOk /\ eOk THEN 0 ELSE 1
        m2 == [m1 EXCEPT !.self.lastRun.engineRc = returncode]
    IN  IF starter_stderr(sOk) # "None"
        THEN Raise(m1, "StarterFailure")
        ELSE IF runStarter
        THEN m1
        ELSE IF returncode # 0
        THEN Raise(m2, "EngineFailure")
        ELSE [m2 EXCEPT !.fs[d].csv =
                 [present |-> TRUE, ev |-> started[d].deck, intr |-> iv]]

(***************************************************************************)
(* AbstractPhysicalModel: deck generation, simulation, artifact reads      *)
(***************************************************************************)
\* StarBoxMesh sets no thickness for more than 35 variables, and building
\* its cell table then fails on thickness[0]
StarBoxMaxDim == 35

\* StarBox._write_input_file: the mesh is built, then the deck is written
_write_input_file(m) ==
    IF m.self.dimension > StarBoxMaxDim
    THEN Raise(m, "IndexError")
    ELSE [m EXCEPT !.fs[DirName(m.self)].deck = m.self.curEval]

\* variant: the id is advanced before the vector is validated
generate_input_deck_counting(m, variable_array) ==
    LET m0 == [m EXCEPT !.self.sim_status = 0]
        bumped == IF m0.self.seq
                  THEN [m0 EXCEPT !.self.deck_id = @ + 1]
                  ELSE m0
        m1 == _validate_variable_array(bumped, variable_array)
        write(mm) ==
            LET d == DirNameOf(mm.self.family,
                               IF mm.self.seq THEN mm.self.deck_id - 1
                                              ELSE mm.self.deck_id)
            IN  _write_input_file([mm EXCEPT !.fs[d].exists = TRUE,
                                             !.self.wsName = d])
    IN  Then(m1, write)

generate_input_deck(m, variable_array) ==
    LET m0 == [m EXCEPT !.self.sim_status = 0]
        m1 == _validate_variable_array(m0, variable_array)
        write(mm) ==
            LET d == DirName(mm.self)
            IN  _write_input_file([mm EXCEPT !.fs[d].exists = TRUE,
                                             !.self.wsName = d])
        bump(mm) == IF mm.self.seq
                    THEN deck_id_setter(mm, mm.self.deck_id + 1)
                    ELSE mm
    IN  Then(Then(m1, write), bump)

run_simulation(m, runStarter, sOk, eOk, iv) ==
    LET entered ==
            [m EXCEPT
                !.self.fullRuns = IF runStarter THEN @ ELSE @ + 1,
                !.self.starterRuns = IF runStarter THEN @ + 1 ELSE @,
                !.self.lastRun =
                    [kind |-> IF runStarter THEN "starter" ELSE "full",
                     idBefore |-> m.self.deck_id,
                     statusBefore |-> m.self.sim_status,
                     tableBefore |-> m.self.output_data_frame,
                     starterRc |-> -1, engineRc |-> -1]]
        m1 == IF entered.self.seq
              THEN deck_id_setter(entered, entered.self.deck_id - 1)
              ELSE entered
        go(mm) ==
            LET d == DirName(mm.self)
            IN  run_radioss([mm EXCEPT !.self.touched = @ \cup {d}],
                            d, runStarter, sOk, eOk, iv)
    IN  Then(m1, go)

\* variant: the id is advanced under either identity policy
load_output_data_frame_advancing(m) ==
    LET d == DirName(m.self)
        m1 == [m EXCEPT !.self.touched = @ \cup {d}]
    IN  IF ~Exists(m1.fs, d) \/ ~m1.fs[d].csv.present
        THEN Raise(m1, "FileNotFoundError")
        ELSE LET m2 == [m1 EXCEPT !.self.output_data_frame = m1.fs[d].csv]
             IN  deck_id_setter(m2, m2.self.deck_id + 1)

load_output_data_frame(m) ==
    LET d == DirName(m.self)
        m1 == [m EXCEPT !.self.touched = @ \cup {d}]
    IN  IF ~Exists(m1.fs, d) \/ ~m1.fs[d].csv.present
        THEN Raise(m1, "FileNotFoundError")
        ELSE LET m2 == [m1 EXCEPT !.self.output_data_frame = m1.fs[d].csv]
             IN  IF m2.self.seq
                 THEN deck_id_setter(m2, m2.self.deck_id + 1)
                 ELSE m2

extract_mass_from_file(m) ==
    LET d == DirName(m.self)
        m1 == [m EXCEPT !.self.touched = @ \cup {d}]
    IN  IF ~Exists(m1.fs, d) \/ m1.fs[d].out = -1
        THEN Raise(m1, "FileNotFoundError")
        ELSE [m1 EXCEPT !.val = Value("mass", {m1.fs[d].out}, 0)]

SetStatus(m, s) == [m EXCEPT !.self.sim_status = s]

(***************************************************************************)
(* AbstractPhysicalModel: the primitive metrics                            *)
(***************************************************************************)

\* variant: the simulation is run whatever sim_status records
instrusion_calculation_always(m, sOk, eOk, iv) ==
    LET m1 == Then(Then(run_simulation(m, FALSE, sOk, eOk, iv),
                        load_output_data_frame),
                   LAMBDA mm : SetStatus(mm, 2))
    IN  Then(m1, LAMBDA mm :
            [mm EXCEPT !.val = Value("intrusion",
                                     {mm.self.output_data_frame.ev},
                                     mm.self.output_data_frame.intr)])

instrusion_calculation(m, sOk, eOk, iv) ==
    LET m1 == IF m.self.sim_status < 2 \/ ~m.self.output_data_frame.present
              THEN Then(Then(run_simulation(m, FALSE, sOk, eOk, iv),
                             load_output_data_frame),
                        LAMBDA mm : SetStatus(mm, 2))
              ELSE m
    IN  Then(m1, LAMBDA mm :
            [mm EXCEPT !.val = Value("intrusion",
                                     {mm.self.output_data_frame.ev},
                                     mm.self.output_data_frame.intr)])


\* variant: the mass is taken from a full run instead of a starter-only run
mass_calculation_full(m, sOk) ==
    LET m1 == IF m.self.sim_status < 1
              THEN Then(run_simulation(m, FALSE, sOk, sOk, 60),
                        LAMBDA mm : SetStatus(mm, 1))
              ELSE m
        m2 == Then(m1, extract_mass_from_file)
    IN  Then(m2, LAMBDA mm :
            IF mm.self.seq
            THEN deck_id_setter(mm, mm.self.deck_id + 1)
            ELSE mm)

\* variant: the stage is recorded as 1 after every mass read
mass_calculation_restage(m, sOk) ==
    LET m1 == IF m.self.sim_status < 1
              THEN run_simulation(m, TRUE, sOk, FALSE, 0)
              ELSE m
        m2 == Then(Then(m1, LAMBDA mm : SetStatus(mm, 1)),
                   extract_mass_from_file)
    IN  Then(m2, LAMBDA mm :
            IF mm.self.seq
            THEN deck_id_setter(mm, mm.self.deck_id + 1)
            ELSE mm)

mass_calculation(m, sOk) ==
    LET m1 == IF m.self.sim_status < 1
              THEN Then(run_simulation(m, TRUE, sOk, FALSE, 0),
                        LAMBDA mm : SetStatus(mm, 1))
              ELSE m
        m2 == Then(m1, extract_mass_from_file)
    IN  Then(m2, LAMBDA mm :
            IF mm.self.seq
            THEN deck_id_setter(mm, mm.self.deck_id + 1)
            ELSE mm)

absorbed_energy_calculation(m) ==
    [m EXCEPT !.val = Value("absorbed_energy", {m.self.curEval}, 0)]

peak_force_calculation(m, sOk, eOk, iv) ==
    LET m1 == IF m.self.sim_status < 2 \/ ~m.self.output_data_frame.present
              THEN Then(Then(run_simulation(m, FALSE, sOk, eOk, iv),
                             LAMBDA mm : SetStatus(mm, 2)),
                        load_output_data_frame)
              ELSE m
    IN  Then(m1, LAMBDA mm :
            [mm EXCEPT !.val = Value("max_impact_force",
                                     {mm.self.output_data_frame.ev}, 0)])

mean_force_calculation(m, sOk, eOk, iv) ==
    LET m1 == IF m.self.sim_status < 2 \/ ~m.self.output_data_frame.present
              THEN Then(Then(run_simulation(m, FALSE, sOk, eOk, iv),
                             load_output_data_frame),
                        LAMBDA mm : SetStatus(mm, 2))
              ELSE m
    IN  Then(m1, LAMBDA mm :
            [mm EXCEPT !.val = Value("mean_impact_force",
                                     {mm.self.output_data_frame.ev}, 0)])

(***************************************************************************)
(* __call__.  handle_single(key) is the sequence of method calls the       *)
(* table entry of key makes, in evaluation order; a conditional entry      *)
(* starts with its condition ("intrusion<=60", "intrusion<=50") and        *)
(* Branch gives the calls of the arm the condition selects.                *)
(***************************************************************************)
handle_single(key) ==
    CASE key = "mass" -> <<"mass">>
      [] key = "absorbed_energy" -> <<"absorbed_energy">>
      [] key = "intrusion" -> <<"intrusion">>
      [] key = "mean_impact_force" -> <<"mean_force">>
      [] key = "max_impact_force" -> <<"peak_force">>
      [] key = "specific_energy_absorbed" -> <<"absorbed_energy", "mass">>
      [] key = "load_uniformity" -> <<"peak_force", "mean_force">>
      [] key = "penalized_sea" -> <<"intrusion<=60">>
      [] key = "penalized_mass" -> <<"intrusion<=50">>
      [] OTHER -> <<"nan">>

Branch(op, intrusion) ==
    CASE op = "intrusion<=60" ->
            IF intrusion <= 60 THEN <<"absorbed_energy", "mass">>
                               ELSE <<"intrusion">>
      [] op = "intrusion<=50" ->
            IF intrusion <= 50 THEN <<"mass">> ELSE <<"intrusion">>
      [] OTHER -> <<>>

IntrusionOps == {"intrusion", "intrusion<=60", "intrusion<=50"}

\* one pending entry of the evaluation: the requested key, the calls still
\* to make for it, where its value goes in result (-1: append, n: insert
\* at n), and what the calls made so far returned
Frame(key, ops, ins) ==
    [key |-> key, ops |-> ops, ins |-> ins, src |-> {}, num |-> 0]


\* variant: the intrusion is appended instead of inserted at its index
Plan_append(output_data) ==
    IF output_data.kind = "str"
    THEN <<Frame(output_data.names[1], handle_single(output_data.names[1]), -1)>>
    ELSE IF output_data.kind = "list"
    THEN LET has == Contains(output_data.names, "intrusion")
             intrusion_index == IF has THEN Index(output_data.names, "intrusion")
                                       ELSE -1
             output_keys == IF has THEN Pop(output_data.names, intrusion_index)
                                   ELSE output_data.names
             frames == [k \in 1..Len(output_keys) |->
                           Frame(output_keys[k], handle_single(output_keys[k]), -1)]
         IN  IF has
             THEN frames \o <<Frame("intrusion", <<"intrusion">>, -1)>>
             ELSE frames
    ELSE <<>>

\* the entries of one __call__, in resolution order
Plan(output_data) ==
    IF output_data.kind = "str"
    THEN <<Frame(output_data.names[1], handle_single(output_data.names[1]), -1)>>
    ELSE IF output_data.kind = "list"
    THEN LET has == Contains(output_data.names, "intrusion")
             intrusion_index == IF has THEN Index(output_data.names, "intrusion")
                                       ELSE -1
             output_keys == IF has THEN Pop(output_data.names, intrusion_index)
                                   ELSE output_data.names
             frames == [k \in 1..Len(output_keys) |->
                           Frame(output_keys[k], handle_single(output_keys[k]), -1)]
         IN  IF has
             THEN frames \o <<Frame("intrusion", <<"intrusion">>, intrusion_index)>>
             ELSE frames
    ELSE <<>>

\* the value of an entry whose calls are all made
EntryValue(frame, op) ==
    IF op = "nan" THEN NaN ELSE Value(frame.key, frame.src, frame.num)

\* the method call at the head of the current entry returned m.val
Advance(m) ==
    LET self == m.self
        frame == Head(self.todo)
        op == Head(frame.ops)
        ops == Tail(frame.ops) \o Branch(op, m.val.num)
        f1 == [frame EXCEPT !.ops = ops,
                            !.src = @ \cup m.val.src,
                            !.num = IF op \in IntrusionOps THEN m.val.num ELSE @]
        entry == [key |-> f1.key, val |-> EntryValue(f1, op)]
    IN  IF ops # <<>>
        THEN [m EXCEPT !.self.todo = <<f1>> \o Tail(self.todo)]
        ELSE [m EXCEPT !.self.todo = Tail(self.todo),
                       !.self.result = IF f1.ins < 0
                                       THEN Append(self.result, entry)
                                       ELSE Insert(self.result, f1.ins, entry)]


\* variant: the stage recorded by the previous call is kept
call_memo(m, variable_array, deck_id, n) ==
    LET entered ==
            [m EXCEPT !.self.curEval = n, !.self.idBefore = m.self.deck_id,
                      !.self.fullRuns = 0, !.self.starterRuns = 0,
                      !.self.touched = {}, !.self.lastRun = NoRun,
                      !.self.result = <<>>, !.self.ret = NoReturn,
                      !.self.todo = <<>>, !.self.wsName = <<"", 0>>,
                      !.self.outcome = "none", !.self.err = "none",
                      !.self.repeat = FALSE,
                      !.self.arg =
                          [lenOk |-> Len(variable_array) = m.self.dimension,
                           rangeOk |-> \A k \in 1..Len(variable_array) :
                                          variable_array[k] \in -5..5,
                           idOk |-> m.self.seq \/ deck_id > 0]]
        m1 == IF ~entered.self.seq THEN deck_id_setter(entered, deck_id)
                                   ELSE entered
        m3 == Then(m1, LAMBDA mm : generate_input_deck(mm, variable_array))
    IN  Then(m3, LAMBDA mm :
            [mm EXCEPT !.self.todo = Plan(mm.self.output_data),
                       !.self.pc = "busy",
                       !.self.sim_status = m.self.sim_status,
                       !.self.repeat = (mm.self.wsName = mm.self.prevWs)])

\* the head of __call__: identity, stage reset, input deck, and the entries
\* to resolve
__call__(m, variable_array, deck_id, n) ==
    LET entered ==
            [m EXCEPT !.self.curEval = n, !.self.idBefore = m.self.deck_id,
                      !.self.fullRuns = 0, !.self.starterRuns = 0,
                      !.self.touched = {}, !.self.lastRun = NoRun,
                      !.self.result = <<>>, !.self.ret = NoReturn,
                      !.self.todo = <<>>, !.self.wsName = <<"", 0>>,
                      !.self.outcome = "none", !.self.err = "none",
                      !.self.repeat = FALSE,
                      !.self.arg =
                          [lenOk |-> Len(variable_array) = m.self.dimension,
                           rangeOk |-> \A k \in 1..Len(variable_array) :
                                          variable_array[k] \in -5..5,
                           idOk |-> m.self.seq \/ deck_id > 0]]
        m1 == IF ~entered.self.seq THEN deck_id_setter(entered, deck_id)
                                   ELSE entered
        m2 == Then(m1, LAMBDA mm : SetStatus(mm, 0))
        m3 == Then(m2, LAMBDA mm : generate_input_deck(mm, variable_array))
    IN  Then(m3, LAMBDA mm :
            [mm EXCEPT !.self.todo = Plan(mm.self.output_data),
                       !.self.pc = "busy",
                       !.self.repeat = (mm.self.wsName = mm.self.prevWs)])

\* the value __call__ hands back once every entry is resolved
ReturnValue(self) ==
    IF self.output_data.kind = "str"
    THEN [kind |-> "scalar", vals |-> self.result]
    ELSE IF self.output_data.kind = "list"
    THEN [kind |-> "list", vals |-> self.result]
    ELSE [kind |-> "None", vals |-> <<>>]

(***************************************************************************)
(* The state machine                                                       *)
(***************************************************************************)
\* names combined in a requested list: one metric per stage the table
\* reaches, the two-armed 'penalized_sea', and a name that is no metric
ListNames ==
    {"mass", "intrusion", "load_uniformity", "absorbed_energy", "penalized_sea",
     "bogus"}

\* output_data arguments offered to the constructor: none, every name as a
\* string, lists over ListNames, and tuples (which __call__ never resolves)
Requests ==
    {[kind |-> "none", names |-> <<>>]}
    \cup {[kind |-> "str", names |-> <<n>>] : n \in Names}
    \cup {[kind |-> "list", names |-> s] : s \in SeqsUpTo(ListNames, MaxLen)}
    \cup {[kind |-> "tuple", names |-> s] : s \in SeqsUpTo({"mass"}, MaxLen)}

\* design vectors offered to __call__: the vector of fives with one
\* component replaced by each offered value, and an in-range vector one
\* shorter and one longer
Vectors ==
    {[k \in 1..MaxDim |-> IF k = j THEN v ELSE 5] :
         j \in 1..MaxDim, v \in XVals}
    \cup {[k \in 1..n |-> 5] : n \in {MaxDim - 1, MaxDim + 1}}

\* what the two executables of one run may do: the starter fails (the
\* engine then finds no restart file and fails too), the starter succeeds
\* and the engine fails, or both succeed and the run produces an intrusion
RunOutcomes ==
    {[sOk |-> FALSE, eOk |-> FALSE, iv |-> 60],
     [sOk |-> TRUE, eOk |-> FALSE, iv |-> 60]}
    \cup {[sOk |-> TRUE, eOk |-> TRUE, iv |-> v] : v \in IntrusionValues}

\* the instance's attributes when the method that produced m is left
Settle(m) ==
    IF m.exc # "none"
    THEN [m.self EXCEPT !.pc = "idle", !.outcome = "raised", !.err = m.exc,
                        !.prevWs = <<"", 0>>]
    ELSE m.self

Finish(m) == Settle(IF m.exc = "none" THEN Advance(m) ELSE m)

HeadOp(self) == Head(Head(self.todo).ops)

Ready(i, ops) ==
    /\ obj[i].pc = "busy"
    /\ obj[i].todo # <<>>
    /\ HeadOp(obj[i]) \in ops

Init ==
    /\ obj = [i \in Insts |-> Unbuilt]
    \* an earlier process may have left its workspaces 1..k behind
    /\ \E k \in 0..MaxDir :
          dirs = [d \in DirNames |-> IF d[2] <= k THEN LeftoverDir ELSE NoDir]
    /\ instance_counter = [f \in Families |-> 1]
    /\ evalNo = 0

\* problem = StarBox(dim, runner_options, seqFlag, od)
ConstructFrom(i, requests) ==
    /\ obj[i].pc = "none"
    /\ \E dim \in Dims, seqFlag \in BOOLEAN, od \in requests :
          LET m == StarBox_init(M(Unbuilt, dirs), dim, seqFlag, od,
                                instance_counter["StarBox"])
          IN  IF m.exc # "none"
              THEN /\ obj' = [obj EXCEPT ![i] =
                                 [Unbuilt EXCEPT !.outcome = "raised",
                                                 !.err = m.exc]]
                   /\ UNCHANGED instance_counter
              ELSE /\ obj' = [obj EXCEPT ![i] = [m.self EXCEPT !.pc = "idle"]]
                   /\ instance_counter' =
                          [instance_counter EXCEPT !["StarBox"] =
                              IF seqFlag THEN @ + 1 ELSE @]
    /\ UNCHANGED <<dirs, evalNo>>

Construct(i) == ConstructFrom(i, Requests)

\* problem(x, id) with x among vectors and id among ids, while fewer than
\* limit calls were made
CallWith(i, limit, vectors, ids) ==
    /\ obj[i].pc = "idle"
    /\ evalNo < limit
    /\ obj[i].seq => obj[i].deck_id <= MaxDir
    \* a caller of a sequentially numbered instance omits deck_id
    /\ \E x \in vectors, id \in (IF obj[i].seq THEN {-1} ELSE ids) :
          LET m == __call__(M(obj[i], dirs), x, id, evalNo + 1)
          IN  /\ obj' = [obj EXCEPT ![i] = Settle(m)]
              /\ dirs' = m.fs
    /\ evalNo' = evalNo + 1
    /\ UNCHANGED instance_counter

CallUpTo(i, limit) == CallWith(i, limit, Vectors, ExplicitIds)

Call(i) == CallUpTo(i, MaxEvals)

MassStep(i) ==
    /\ Ready(i, {"mass"})
    /\ \E sOk \in BOOLEAN :
          LET m == mass_calculation(M(obj[i], dirs), sOk)
          IN  /\ obj' = [obj EXCEPT ![i] = Finish(m)]
              /\ dirs' = m.fs
    /\ UNCHANGED <<instance_counter, evalNo>>

AbsorbedEnergyStep(i) ==
    /\ Ready(i, {"absorbed_energy"})
    /\ LET m == absorbed_energy_calculation(M(obj[i], dirs))
       IN  /\ obj' = [obj EXCEPT ![i] = Finish(m)]
           /\ dirs' = m.fs
    /\ UNCHANGED <<instance_counter, evalNo>>

IntrusionStep(i) ==
    /\ Ready(i, IntrusionOps)
    /\ \E o \in RunOutcomes :
          LET m == instrusion_calculation(M(obj[i], dirs), o.sOk, o.eOk, o.iv)
          IN  /\ obj' = [obj EXCEPT ![i] = Finish(m)]
              /\ dirs' = m.fs
    /\ UNCHANGED <<instance_counter, evalNo>>

PeakForceStep(i) ==
    /\ Ready(i, {"peak_force"})
    /\ \E o \in RunOutcomes :
          LET m == peak_force_calculation(M(obj[i], dirs), o.sOk, o.eOk, o.iv)
          IN  /\ obj' = [obj EXCEPT ![i] = Finish(m)]
              /\ dirs' = m.fs
    /\ UNCHANGED <<instance_counter, evalNo>>

MeanForceStep(i) ==
    /\ Ready(i, {"mean_force"})
    /\ \E o \in RunOutcomes :
          LET m == mean_force_calculation(M(obj[i], dirs), o.sOk, o.eOk, o.iv)
          IN  /\ obj' = [obj EXCEPT ![i] = Finish(m)]
              /\ dirs' = m.fs
    /\ UNCHANGED <<instance_counter, evalNo>>

\* the default of the table lookup: lambda: np.nan
NanStep(i) ==
    /\ Ready(i, {"nan"})
    /\ obj' = [obj EXCEPT ![i] = Finish([M(obj[i], dirs) EXCEPT !.val = NaN])]
    /\ UNCHANGED <<dirs, instance_counter, evalNo>>

Return(i) ==
    /\ obj[i].pc = "busy"
    /\ obj[i].todo = <<>>
    /\ obj' = [obj EXCEPT ![i] =
                  [obj[i] EXCEPT !.pc = "idle", !.outcome = "returned",
                                 !.ret = ReturnValue(obj[i]),
                                 !.prevWs = obj[i].wsName]]
    /\ UNCHANGED <<dirs, instance_counter, evalNo>>

Next ==
    \E i \in Insts :
        \/ Construct(i)
        \/ Call(i)
        \/ MassStep(i)
        \/ AbsorbedEnergyStep(i)
        \/ IntrusionStep(i)
        \/ PeakForceStep(i)
        \/ MeanForceStep(i)
        \/ NanStep(i)
        \/ Return(i)

Spec == Init /\ [][Next]_vars

(***************************************************************************)
(* One evaluation of a longer metric list                                  *)
(***************************************************************************)
MaxOrderLen == 3

OrderNames ==
    {"intrusion", "mass", "load_uniformity", "specific_energy_absorbed", "MASS"}

OrderRequests ==
    {[kind |-> "list", names |-> s] : s \in SeqsUpTo(OrderNames, MaxOrderLen)}

OrderConstruct(i) == ConstructFrom(i, OrderRequests)

OrderCall(i) == CallUpTo(i, 1)

NextOrder ==
    \E i \in Insts :
        \/ OrderConstruct(i)
        \/ OrderCall(i)
        \/ MassStep(i)
        \/ AbsorbedEnergyStep(i)
        \/ IntrusionStep(i)
        \/ PeakForceStep(i)
        \/ MeanForceStep(i)
        \/ NanStep(i)
        \/ Return(i)

SpecOrder == Init /\ [][NextOrder]_vars

(***************************************************************************)
(* Properties                                                              *)
(***************************************************************************)
Built(i) == obj[i].pc # "none"

Returned(i) == obj[i].outcome = "returned"

Raised(i) == obj[i].outcome = "raised"

\* C1 - within one __call__ the full-stage simulation and the starter-only
\* simulation are each invoked at most once, whatever is requested, and
\* neither is invoked for a stage that sim_status records as done
C1_AtMostOncePerStage ==
    \A i \in Insts :
        /\ obj[i].fullRuns <= 1
        /\ obj[i].starterRuns <= 1
        /\ obj[i].lastRun.kind = "full" => obj[i].lastRun.statusBefore < 2
        /\ obj[i].lastRun.kind = "starter" => obj[i].lastRun.statusBefore < 1

C1_Witness ==
    \E i \in Insts :
        /\ Returned(i)
        /\ obj[i].output_data.names = <<"load_uniformity", "intrusion">>
        /\ obj[i].fullRuns = 1

ValueFor(key, v) ==
    IF handle_single(key) = <<"nan">> THEN v.nan ELSE ~v.nan /\ v.name = key

\* C3 - for a list of n requested names __call__ returns n values, the
\* k-th being the value of the k-th name, wherever 'intrusion' stands
C3_OrderPreserved ==
    \A i \in Insts :
        (Returned(i) /\ obj[i].output_data.kind = "list") =>
            /\ obj[i].ret.kind = "list"
            /\ Len(obj[i].ret.vals) = Len(obj[i].output_data.names)
            /\ \A k \in 1..Len(obj[i].ret.vals) :
                  /\ obj[i].ret.vals[k].key = obj[i].output_data.names[k]
                  /\ ValueFor(obj[i].output_data.names[k], obj[i].ret.vals[k].val)

C3_Witness ==
    \E i \in Insts :
        /\ Returned(i)
        /\ obj[i].output_data.names = <<"mass", "intrusion", "load_uniformity">>
        /\ Len(obj[i].ret.vals) = 3
        /\ obj[i].ret.vals[2].val.name = "intrusion"

PartialNames == {"mass", "specific_energy_absorbed", "absorbed_energy"}

PartialOnly(i) ==
    /\ Built(i)
    /\ obj[i].output_data.kind \in {"str", "list"}
    /\ \A k \in 1..Len(obj[i].output_data.names) :
          obj[i].output_data.names[k] \in PartialNames

\* C4 - a request of partial-stage metrics only never runs the full
\* simulation and never leaves sim_status above 1; 'absorbed_energy' alone
\* runs nothing; 'mass' or 'specific_energy_absorbed' run the starter only
C4_CheapMetricsStayPartial ==
    \A i \in Insts :
        PartialOnly(i) =>
            /\ obj[i].fullRuns = 0
            /\ obj[i].sim_status <= 1
            /\ (\A k \in 1..Len(obj[i].output_data.names) :
                    obj[i].output_data.names[k] = "absorbed_energy")
                 => (obj[i].starterRuns = 0 /\ obj[i].sim_status = 0)
            /\ (Returned(i)
                /\ \E k \in 1..Len(obj[i].output_data.names) :
                      obj[i].output_data.names[k] # "absorbed_energy")
                 => (obj[i].starterRuns = 1 /\ obj[i].sim_status = 1)

C4_Witness ==
    \E i \in Insts :
        /\ Returned(i)
        /\ obj[i].output_data = [kind |-> "str",
                                 names |-> <<"specific_energy_absorbed">>]
        /\ obj[i].starterRuns = 1
        /\ obj[i].sim_status = 1

\* C5 - under the sequential policy deck_id after a __call__ that returned
\* is deck_id before it plus one
C5_IdAdvancesByOne ==
    \A i \in Insts :
        (obj[i].seq /\ Returned(i)) => obj[i].deck_id = obj[i].idBefore + 1

\* C6 - every directory resolved by run_simulation, load_output_data_frame
\* and extract_mass_from_file during a __call__ is the directory
\* generate_input_deck wrote the input deck into
C6_OneWorkspace ==
    \A i \in Insts :
        (Built(i) /\ obj[i].curEval > 0) => obj[i].touched \subseteq {obj[i].wsName}

\* C7 - when the engine of the full-stage run ends with a non-zero code the
\* __call__ raises, sim_status keeps the value it had before the run (never
\* 2) and no result table of this evaluation is stored
C7_EngineFailureKeepsStage ==
    \A i \in Insts :
        obj[i].lastRun.engineRc = 1 =>
            /\ Raised(i)
            /\ obj[i].pc = "idle"
            /\ obj[i].sim_status = obj[i].lastRun.statusBefore
            /\ obj[i].sim_status < 2
            /\ obj[i].output_data_frame = obj[i].lastRun.tableBefore
            /\ obj[i].output_data_frame.ev # obj[i].curEval

C7_Witness ==
    \E i \in Insts :
        /\ obj[i].lastRun.engineRc = 1
        /\ obj[i].lastRun.starterRc = 0
        /\ obj[i].lastRun.statusBefore = 1
        /\ obj[i].sim_status = 1

\* C8 - when the starter of a starter-only run ends with a non-zero code
\* the runner raises and mass_calculation does not advance sim_status to 1
C8_StarterFailureRaises ==
    \A i \in Insts :
        (obj[i].lastRun.kind = "starter" /\ obj[i].lastRun.starterRc = 1) =>
            /\ Raised(i)
            /\ obj[i].err = "StarterFailure"
            /\ obj[i].sim_status < 1

\* C9 - under the sequential policy deck_id after a run_simulation that
\* raised on an engine failure equals deck_id before that call
C9_FailedRunRestoresId ==
    \A i \in Insts :
        (obj[i].seq /\ Raised(i) /\ obj[i].err = "EngineFailure") =>
            obj[i].deck_id = obj[i].lastRun.idBefore

\* C10 - a __call__ whose design vector has the wrong length or a
\* component outside [-5, 5] raises with no directory created, no input
\* deck written and no simulation invoked
C10_InvalidVectorFailsFast ==
    [][\A i \in Insts :
          (obj'[i].curEval # obj[i].curEval
           /\ ~(obj'[i].arg.lenOk /\ obj'[i].arg.rangeOk)) =>
              /\ obj'[i].outcome = "raised"
              /\ obj'[i].pc = "idle"
              /\ dirs' = dirs
              /\ obj'[i].fullRuns = 0
              /\ obj'[i].starterRuns = 0]_vars

C10_Witness ==
    \E i \in Insts :
        /\ obj[i].curEval > 0
        /\ obj[i].arg.lenOk
        /\ ~obj[i].arg.rangeOk
        /\ Raised(i)
        /\ obj[i].err = "ValueError"
(***************************************************************************)
(* Construction of a problem of any of the three families                  *)
(***************************************************************************)
AllFamilies == {"StarBox", "CrashTube", "ThreePointBending"}

\* names combined in a list or tuple given to a constructor: the names some
\* family forbids, one that none forbids, and a name that is no metric
BuildNames ==
    {"mass", "penalized_sea", "penalized_mass", "absorbed_energy", "bogus"}

BuildRequests ==
    {[kind |-> "none", names |-> <<>>]}
    \cup {[kind |-> "str", names |-> <<n>>] : n \in Names}
    \cup {[kind |-> k, names |-> s] :
             k \in {"list", "tuple"}, s \in SeqsUpTo(BuildNames, MaxLen)}

BuildDims == {0, MaxDim}

InitBuild ==
    /\ obj = [i \in Insts |-> Unbuilt]
    /\ \E k \in 0..MaxDir :
          dirs = [d \in DirNames |-> IF d[2] <= k THEN LeftoverDir ELSE NoDir]
    /\ instance_counter = [f \in AllFamilies |-> 1]
    /\ evalNo = 0

\* the constructor of family fam, called as the family's class is called
Family_init(m, fam, dim, seqFlag, od, counter) ==
    CASE fam = "StarBox" -> StarBox_init(m, dim, seqFlag, od, counter)
      [] fam = "CrashTube" -> CrashTube_init(m, dim, seqFlag, od, counter)
      [] fam = "ThreePointBending" -> ThreePointBending_init(m, dim, od)

\* problem = Family(dim, od, runner_options, ...), the arguments noted
BuildConstruct(i) ==
    /\ obj[i].pc = "none"
    /\ obj[i].outcome = "none"
    /\ \E fam \in AllFamilies, dim \in BuildDims, seqFlag \in BOOLEAN,
          od \in BuildRequests :
          LET m == Family_init(M(Unbuilt, dirs), fam, dim, seqFlag, od,
                               instance_counter[fam])
          IN  IF m.exc # "none"
              THEN /\ obj' = [obj EXCEPT ![i] =
                                 [Unbuilt EXCEPT !.outcome = "raised",
                                                 !.err = m.exc,
                                                 !.family = fam,
                                                 !.request = od]]
                   /\ UNCHANGED instance_counter
              ELSE /\ obj' = [obj EXCEPT ![i] =
                                 [m.self EXCEPT !.pc = "idle", !.request = od]]
                   /\ instance_counter' =
                          [instance_counter EXCEPT ![fam] =
                              IF m.self.seq THEN @ + 1 ELSE @]
    /\ UNCHANGED <<dirs, evalNo>>

NextBuild == \E i \in Insts : BuildConstruct(i)

SpecBuild == InitBuild /\ [][NextBuild]_vars

\* the request of instance i names a metric its family forbids
ForbiddenRequest(self) ==
    /\ self.request.kind \in {"str", "list", "tuple"}
    /\ \E k \in 1..Len(self.request.names) :
          self.request.names[k] \in forbidden_output_data(self.family)

\* C11 - a constructor given a metric its family forbids (as a single name
\* or as an element of a list or tuple) raises, and it raises with no
\* instance built, no deck_id assigned, the family's instance counter not
\* advanced, no directory touched and no simulation invoked
C11_ForbiddenMetricFailsFirst ==
    [][\A i \in Insts :
          (obj'[i] # obj[i] /\ ForbiddenRequest(obj'[i])) =>
              /\ obj'[i].pc = "none"
              /\ obj'[i].outcome = "raised"
              /\ obj'[i].err = "ValueError"
              /\ obj'[i].deck_id = -1
              /\ instance_counter' = instance_counter
              /\ dirs' = dirs
              /\ obj'[i].fullRuns = 0
              /\ obj'[i].starterRuns = 0]_vars

C11_Witness ==
    \E i \in Insts :
        /\ obj[i].family = "CrashTube"
        /\ obj[i].request = [kind |-> "tuple",
                             names |-> <<"mass", "absorbed_energy">>]
        /\ Raised(i)
        /\ obj[i].pc = "none"
\* C12 - under the explicit identity policy a __call__ given an id <= 0
\* (the default -1 included) raises ValueError with deck_id unchanged, no
\* directory created or written and no simulation invoked
C12_InvalidIdFailsFast ==
    [][\A i \in Insts :
          (obj'[i].curEval # obj[i].curEval /\ ~obj'[i].arg.idOk) =>
              /\ ~obj'[i].seq
              /\ obj'[i].outcome = "raised"
              /\ obj'[i].err = "ValueError"
              /\ obj'[i].pc = "idle"
              /\ obj'[i].deck_id = obj[i].deck_id
              /\ obj'[i].wsName = <<"", 0>>
              /\ dirs' = dirs
              /\ obj'[i].fullRuns = 0
              /\ obj'[i].starterRuns = 0]_vars

C12_Witness ==
    \E i \in Insts :
        /\ ~obj[i].seq
        /\ obj[i].curEval > 0
        /\ ~obj[i].arg.idOk
        /\ obj[i].arg.lenOk /\ obj[i].arg.rangeOk
        /\ Raised(i)
        /\ obj[i].err = "ValueError"
(***************************************************************************)
(* StarBox problems of supported and unsupported dimension, one evaluation *)
(***************************************************************************)
DimChoices == {-1, 0, 1, StarBoxMaxDim, StarBoxMaxDim + 1}

DimRequests == {[kind |-> "str", names |-> <<n>>] : n \in Names}

\* problem = StarBox(dim, runner_options, seqFlag, od), the dimension noted
DimConstruct(i) ==
    /\ obj[i].pc = "none"
    /\ obj[i].outcome = "none"
    /\ \E dim \in DimChoices, seqFlag \in BOOLEAN, od \in DimRequests :
          LET m == StarBox_init(M(Unbuilt, dirs), dim, seqFlag, od,
                                instance_counter["StarBox"])
          IN  IF m.exc # "none"
              THEN /\ obj' = [obj EXCEPT ![i] =
                                 [Unbuilt EXCEPT !.outcome = "raised",
                                                 !.err = m.exc,
                                                 !.dimension = dim]]
                   /\ UNCHANGED instance_counter
              ELSE /\ obj' = [obj EXCEPT ![i] = [m.self EXCEPT !.pc = "idle"]]
                   /\ instance_counter' =
                          [instance_counter EXCEPT !["StarBox"] =
                              IF seqFlag THEN @ + 1 ELSE @]
    /\ UNCHANGED <<dirs, evalNo>>

\* problem(x, 1) with an in-range x of the problem's dimension
DimCall(i) ==
    CallWith(i, 1, {[k \in 1..obj[i].dimension |-> 5]}, {1})

NextDim ==
    \E i \in Insts :
        \/ DimConstruct(i)
        \/ DimCall(i)
        \/ MassStep(i)
        \/ AbsorbedEnergyStep(i)
        \/ IntrusionStep(i)
        \/ PeakForceStep(i)
        \/ MeanForceStep(i)
        \/ NanStep(i)
        \/ Return(i)

SpecDim == Init /\ [][NextDim]_vars

\* the dimension asked of the StarBox constructor is not one of 1..35
UnsupportedDimension(self) ==
    /\ self.pc # "none" \/ self.outcome = "raised"
    /\ self.dimension \notin 1..StarBoxMaxDim

\* C13 - a StarBox asked for an unsupported dimension (0, negative, above
\* 35) never gets a workspace directory and never invokes a simulation: it
\* fails before either
C13_UnsupportedDimensionFailsFirst ==
    \A i \in Insts :
        UnsupportedDimension(obj[i]) =>
            /\ obj[i].wsName = <<"", 0>>
            /\ obj[i].fullRuns = 0
            /\ obj[i].starterRuns = 0
            /\ ~Returned(i)
\* C14 - when the engine of the full-stage run fails in a __call__ for a
\* list of metrics after 'mass' was resolved from the successful starter
\* run, the call still returns, and the list it returns holds that mass
C14_PartialResultsReturned ==
    \A i \in Insts :
        (/\ obj[i].output_data.kind = "list"
         /\ obj[i].lastRun.kind = "full"
         /\ obj[i].lastRun.starterRc = 0
         /\ obj[i].lastRun.engineRc = 1
         /\ \E k \in 1..Len(obj[i].result) :
               obj[i].result[k].key = "mass" /\ ~obj[i].result[k].val.nan) =>
            /\ ~Raised(i)
            /\ obj[i].pc = "idle" =>
                  /\ Returned(i)
                  /\ \E k \in 1..Len(obj[i].ret.vals) :
                        obj[i].ret.vals[k].key = "mass"
(***************************************************************************)
(* One evaluation of a StarBox whose requested list is noted as given      *)
(***************************************************************************)
NotedNames == {"mass", "absorbed_energy", "intrusion", "MASS", "bogus"}

NotedRequests ==
    {[kind |-> k, names |-> s] :
        k \in {"list", "tuple"}, s \in SeqsUpTo(NotedNames, MaxLen)}

\* problem = StarBox(dim, runner_options, seqFlag, od), od noted
NotedConstruct(i) ==
    /\ obj[i].pc = "none"
    /\ obj[i].outcome = "none"
    /\ \E dim \in Dims, seqFlag \in BOOLEAN, od \in NotedRequests :
          LET m == StarBox_init(M(Unbuilt, dirs), dim, seqFlag, od,
                                instance_counter["StarBox"])
          IN  IF m.exc # "none"
              THEN /\ obj' = [obj EXCEPT ![i] =
                                 [Unbuilt EXCEPT !.outcome = "raised",
                                                 !.err = m.exc,
                                                 !.request = od]]
                   /\ UNCHANGED instance_counter
              ELSE /\ obj' = [obj EXCEPT ![i] =
                                 [m.self EXCEPT !.pc = "idle", !.request = od]]
                   /\ instance_counter' =
                          [instance_counter EXCEPT !["StarBox"] =
                              IF seqFlag THEN @ + 1 ELSE @]
    /\ UNCHANGED <<dirs, evalNo>>

\* problem(x, 1) with an in-range x
NotedCall(i) == CallWith(i, 1, {[k \in 1..MaxDim |-> 5]}, {1})

NextNoted ==
    \E i \in Insts :
        \/ NotedConstruct(i)
        \/ NotedCall(i)
        \/ MassStep(i)
        \/ AbsorbedEnergyStep(i)
        \/ IntrusionStep(i)
        \/ NanStep(i)
        \/ Return(i)

SpecNoted == Init /\ [][NextNoted]_vars

\* C15 - a __call__ for a requested list that holds an unrecognized name
\* returns one entry per requested name: not-a-number at the position of
\* an unrecognized name, the computed value of the name everywhere else
C15_UnknownNameIsNaN ==
    \A i \in Insts :
        (/\ Returned(i)
         /\ obj[i].request.kind = "list"
         /\ \E k \in 1..Len(obj[i].request.names) :
               ~Recognized(obj[i].request.names[k])) =>
            /\ obj[i].ret.kind = "list"
            /\ Len(obj[i].ret.vals) = Len(obj[i].request.names)
            /\ \A k \in 1..Len(obj[i].request.names) :
                  IF Recognized(obj[i].request.names[k])
                  THEN /\ ~obj[i].ret.vals[k].val.nan
                       /\ obj[i].ret.vals[k].val.name
                              = StripLower(obj[i].request.names[k])
                  ELSE obj[i].ret.vals[k].val.nan
\* C16 - while one __call__ runs, no step lowers sim_status: a full run
\* takes it to 2 from 0 or from 1, and a mass read made at 2 leaves it at 2
C16_StageNeverLowered ==
    [][\A i \in Insts :
          (obj[i].pc = "busy" /\ obj'[i].curEval = obj[i].curEval) =>
              /\ obj'[i].sim_status >= obj[i].sim_status
              /\ obj'[i].sim_status \in 0..2
              /\ (obj'[i].sim_status = 2 /\ obj[i].sim_status < 2) =>
                    obj'[i].lastRun.kind = "full"]_vars

C16_Witness ==
    \E i \in Insts :
        /\ Returned(i)
        /\ obj[i].output_data.names = <<"mass", "penalized_sea">>
        /\ obj[i].lastRun.kind = "full"
        /\ obj[i].lastRun.statusBefore = 1
        /\ obj[i].ret.vals[2].val.num = 60
        /\ obj[i].sim_status = 2
\* C17 - from the start of a __call__ on, the instance holds no result
\* table of an earlier evaluation: a table it holds is the one the full
\* stage of the running evaluation produced, and every value the call
\* returns was computed from artifacts of that evaluation alone
C17_FreshRecord ==
    \A i \in Insts :
        /\ (obj[i].pc = "busy" /\ obj[i].output_data_frame.present) =>
              /\ obj[i].output_data_frame.ev = obj[i].curEval
              /\ obj[i].sim_status = 2
        /\ Returned(i) =>
              \A k \in 1..Len(obj[i].ret.vals) :
                  obj[i].ret.vals[k].val.src \subseteq {obj[i].curEval}
(***************************************************************************)
(* Two StarBox instances of one process, numbered sequentially             *)
(***************************************************************************)
MaxPairEvals == 3     \* __call__ invocations made on the two instances

Pair == {1, 2}

PairRequests == {[kind |-> "str", names |-> <<n>>] : n \in {"mass", "absorbed_energy"}}

InitPair ==
    /\ obj = [i \in Pair |-> Unbuilt]
    /\ \E k \in 0..MaxDir :
          dirs = [d \in DirNames |-> IF d[2] <= k THEN LeftoverDir ELSE NoDir]
    /\ instance_counter = [f \in Families |-> 1]
    /\ evalNo = 0

\* problem_i = StarBox(dim, runner_options, True, od)
PairConstruct(i) ==
    /\ obj[i].pc = "none"
    /\ \E od \in PairRequests :
          LET m == StarBox_init(M(Unbuilt, dirs), MaxDim, TRUE, od,
                                instance_counter["StarBox"])
          IN  /\ m.exc = "none"
              /\ obj' = [obj EXCEPT ![i] = [m.self EXCEPT !.pc = "idle"]]
              /\ instance_counter' =
                     [instance_counter EXCEPT !["StarBox"] = @ + 1]
    /\ UNCHANGED <<dirs, evalNo>>

\* problem_i(x) with an in-range x
PairCall(i) == CallWith(i, MaxPairEvals, {[k \in 1..MaxDim |-> 5]}, {1})

NextPair ==
    \E i \in Pair :
        \/ PairConstruct(i)
        \/ PairCall(i)
        \/ MassStep(i)
        \/ AbsorbedEnergyStep(i)
        \/ Return(i)

SpecPair == InitPair /\ [][NextPair]_vars

\* the workspace directories of the running or last evaluation of an
\* instance and of the evaluation it returned from before
Workspaces(self) == {self.wsName, self.prevWs} \ {<<"", 0>>}

\* C18 - under the sequential policy no two evaluations of the process use
\* the same workspace directory name: not two evaluations of one instance,
\* and not evaluations of two instances of the family
C18_SequentialWorkspacesDistinct ==
    /\ \A i \in Pair :
          obj[i].seq => ~obj[i].repeat
    /\ \A i, j \in Pair :
          (i # j /\ obj[i].seq /\ obj[j].seq) =>
              Workspaces(obj[i]) \cap Workspaces(obj[j]) = {}

(***************************************************************************)
(* Two worker threads of one process, each evaluating 'intrusion' on its   *)
(* own StarBox instance under the explicit-id policy.  The current working *)
(* directory belongs to the process, so here dirs holds it next to the     *)
(* directory tree, and a path is the sequence of directory names below     *)
(* the directory the process started in.  A thread may be preempted        *)
(* between any two statements of generate_input_deck and of the metric     *)
(* method; every run of the solver on an existing deck succeeds.           *)
(***************************************************************************)
MaxWorkerEvals == 1     \* __call__ invocations made by each worker

Workers == {1, 2}

StartDir == <<>>

IdleWorker ==
    [pc |-> "idle", deck_id |-> -1, sim_status |-> 0, evals |-> 0,
     original_dir |-> StartDir, working_dir |-> StartDir,
     made |-> {}, wrote |-> {}, ran |-> {}, read |-> {},
     outcome |-> "none"]

\* the caller's distinct ids: worker w passes w, then w + 2, ...
WorkerDeckId(w, n) == Cardinality(Workers) * (n - 1) + w

\* os.path.join(os.getcwd(), dir_name)
JoinCwd(fs, self) == Append(fs.cwd, DirNameOf("StarBox", self.deck_id))

InitWorkers ==
    /\ obj = [w \in Workers |-> IdleWorker]
    /\ dirs = [cwd |-> StartDir, exists |-> {StartDir}, deck |-> {}, csv |-> {}]
    /\ instance_counter = [f \in Families |-> 1]
    /\ evalNo = 0

\* problem_w(x, deck_id): the head of __call__ and of generate_input_deck
WorkerCall(w) ==
    /\ obj[w].pc = "idle"
    /\ obj[w].evals < MaxWorkerEvals
    /\ obj' = [obj EXCEPT ![w] =
                  [@ EXCEPT !.pc = "getcwd",
                            !.evals = @ + 1,
                            !.deck_id = WorkerDeckId(w, obj[w].evals + 1),
                            !.sim_status = 0,
                            !.outcome = "none"]]
    /\ UNCHANGED <<dirs, instance_counter, evalNo>>

\* original_dir = os.getcwd()
Getcwd(w) ==
    /\ obj[w].pc = "getcwd"
    /\ obj' = [obj EXCEPT ![w] =
                  [@ EXCEPT !.pc = "makedirs", !.original_dir = dirs.cwd]]
    /\ UNCHANGED <<dirs, instance_counter, evalNo>>

\* working_dir = os.path.join(os.getcwd(), dir_name); os.makedirs
Makedirs(w) ==
    /\ obj[w].pc = "makedirs"
    /\ LET wd == JoinCwd(dirs, obj[w])
       IN  /\ obj' = [obj EXCEPT ![w] =
                         [@ EXCEPT !.pc = "chdir", !.working_dir = wd,
                                   !.made = IF wd \in dirs.exists
                                            THEN @ ELSE @ \cup {wd}]]
           /\ dirs' = [dirs EXCEPT !.exists = @ \cup {wd}]
    /\ UNCHANGED <<instance_counter, evalNo>>

\* os.chdir(working_dir)
Chdir(w) ==
    /\ obj[w].pc = "chdir"
    /\ obj' = [obj EXCEPT ![w] = [@ EXCEPT !.pc = "write"]]
    /\ dirs' = [dirs EXCEPT !.cwd = obj[w].working_dir]
    /\ UNCHANGED <<instance_counter, evalNo>>

\* self._write_input_file(...): the deck goes to os.getcwd()
WriteInputFile(w) ==
    /\ obj[w].pc = "write"
    /\ obj' = [obj EXCEPT ![w] =
                  [@ EXCEPT !.pc = "restore", !.wrote = @ \cup {dirs.cwd}]]
    /\ dirs' = [dirs EXCEPT !.deck =
                   {e \in @ : e[1] # dirs.cwd} \cup {<<dirs.cwd, w>>}]
    /\ UNCHANGED <<instance_counter, evalNo>>

\* os.chdir(original_dir)
ChdirBack(w) ==
    /\ obj[w].pc = "restore"
    /\ obj' = [obj EXCEPT ![w] = [@ EXCEPT !.pc = "run"]]
    /\ dirs' = [dirs EXCEPT !.cwd = obj[w].original_dir]
    /\ UNCHANGED <<instance_counter, evalNo>>

\* instrusion_calculation: self.run_simulation(); self.sim_status = 2
RunSimulation(w) ==
    /\ obj[w].pc = "run"
    /\ LET wd == JoinCwd(dirs, obj[w])
           found == {e \in dirs.deck : e[1] = wd}
       IN  IF found = {}
           THEN /\ obj' = [obj EXCEPT ![w] =
                              [@ EXCEPT !.pc = "idle", !.ran = @ \cup {wd},
                                        !.outcome = "raised"]]
                /\ UNCHANGED dirs
           ELSE /\ obj' = [obj EXCEPT ![w] =
                              [@ EXCEPT !.pc = "load", !.ran = @ \cup {wd},
                                        !.sim_status = 2]]
                /\ dirs' = [dirs EXCEPT !.csv =
                               {e \in @ : e[1] # wd} \cup found]
    /\ UNCHANGED <<instance_counter, evalNo>>

\* instrusion_calculation: self.load_output_data_frame()
LoadOutputDataFrame(w) ==
    /\ obj[w].pc = "load"
    /\ LET wd == JoinCwd(dirs, obj[w])
       IN  obj' = [obj EXCEPT ![w] =
                      [@ EXCEPT !.pc = "idle", !.read = @ \cup {wd},
                                !.outcome =
                                    IF \E e \in dirs.csv : e[1] = wd
                                    THEN "returned" ELSE "raised"]]
    /\ UNCHANGED <<dirs, instance_counter, evalNo>>

NextWorkers ==
    \E w \in Workers :
        \/ WorkerCall(w)
        \/ Getcwd(w)
        \/ Makedirs(w)
        \/ Chdir(w)
        \/ WriteInputFile(w)
        \/ ChdirBack(w)
        \/ RunSimulation(w)
        \/ LoadOutputDataFrame(w)

SpecWorkers == InitWorkers /\ [][NextWorkers]_vars

\* the workspaces of the evaluations worker w has started
OwnWorkspaces(w) ==
    {<<DirNameOf("StarBox", WorkerDeckId(w, n))>> : n \in 1..obj[w].evals}

\* C19 - under every interleaving of two workers that use distinct
\* explicit ids, a worker creates, writes its deck into, runs in and reads
\* from its own workspace directories only
C19_WorkersKeepToOwnWorkspace ==
    \A w \in Workers :
        (obj[w].made \cup obj[w].wrote \cup obj[w].ran \cup obj[w].read)
            \subseteq OwnWorkspaces(w)

(***************************************************************************)
(* The arithmetic of the composite table entries of handle_single.  The    *)
(* three metric calls return numbers; a quotient is kept as an exact       *)
(* fraction n / d with d > 0.  The mass is the total mass the starter      *)
(* reports for the meshed structure, a positive number.                    *)
(***************************************************************************)
MaxQty == 4      \* largest mass and absorbed energy offered
MaxOver == 2     \* how far the intrusions offered lie from the threshold

SeaThreshold == 60

EnergyValues == 0..MaxQty

MassValues == 1..MaxQty

MassThreshold == 50

ThresholdIntrusions ==
    (SeaThreshold - MaxOver)..(SeaThreshold + MaxOver)
        \cup (MassThreshold - MaxOver)..(MassThreshold + MaxOver)

Frac(n, d) == [n |-> n, d |-> d]

Neg(q) == [q EXCEPT !.n = -@]

FracEq(p, q) == p.n * q.d = q.n * p.d

\* variant: the threshold itself counts as exceeded
penalized_sea_strict(absorbed_energy, mass, intrusion) ==
    Neg(IF intrusion < SeaThreshold
        THEN Frac(absorbed_energy, mass)
        ELSE Frac(-100 * (intrusion - SeaThreshold), 1))

\* 'penalized_sea': lambda: -(a / m if i <= 60 else -100 * (i - 60))
penalized_sea(absorbed_energy, mass, intrusion) ==
    Neg(IF intrusion <= SeaThreshold
        THEN Frac(absorbed_energy, mass)
        ELSE Frac(-100 * (intrusion - SeaThreshold), 1))

RECURSIVE GCD(_, _)
GCD(a, b) == IF b = 0 THEN a ELSE GCD(b, a % b)

Abs(n) == IF n < 0 THEN -n ELSE n

\* the fraction in lowest terms
Reduce(q) ==
    LET g == GCD(Abs(q.n), q.d)
    IN  Frac(q.n \div g, q.d \div g)

FracAdd(p, q) == Reduce(Frac(p.n * q.d + q.n * p.d, p.d * q.d))

FracScale(k, q) == Reduce(Frac(k * q.n, q.d))

\* 4.25952 = 13311 / 3125
MassPenaltyBase == Frac(13311, 3125)

\* variant: the threshold itself counts as exceeded
penalized_mass_strict(mass, intrusion) ==
    IF intrusion < MassThreshold
    THEN Frac(mass, 1)
    ELSE FracAdd(MassPenaltyBase,
                 FracScale(10, FracAdd(Frac(intrusion, 50), Frac(-1, 1))))

\* 'penalized_mass': lambda: (m if i <= 50 else 4.25952 + 10 * (i / 50 - 1))
penalized_mass(mass, intrusion) ==
    IF intrusion <= MassThreshold
    THEN Frac(mass, 1)
    ELSE FracAdd(MassPenaltyBase,
                 FracScale(10, FracAdd(Frac(intrusion, 50), Frac(-1, 1))))

NoFrac == Frac(0, 0)

\* what the three metric methods return in one evaluation
InitFormula ==
    /\ \E a \in EnergyValues, m \in MassValues, iv \in ThresholdIntrusions :
          obj = [i \in Insts |->
                    [pc |-> "inputs", absorbed_energy |-> a, mass |-> m,
                     intrusion |-> iv, key |-> "none", val |-> NoFrac]]
    /\ dirs = [d \in DirNames |-> NoDir]
    /\ instance_counter = [f \in Families |-> 1]
    /\ evalNo = 0

\* handle_single('penalized_sea')
PenalizedSea(i) ==
    /\ obj[i].pc = "inputs"
    /\ obj' = [obj EXCEPT ![i] =
                  [@ EXCEPT !.pc = "done", !.key = "penalized_sea",
                            !.val = penalized_sea(obj[i].absorbed_energy,
                                                  obj[i].mass,
                                                  obj[i].intrusion)]]
    /\ UNCHANGED <<dirs, instance_counter, evalNo>>

\* handle_single('penalized_mass')
PenalizedMass(i) ==
    /\ obj[i].pc = "inputs"
    /\ obj' = [obj EXCEPT ![i] =
                  [@ EXCEPT !.pc = "done", !.key = "penalized_mass",
                            !.val = penalized_mass(obj[i].mass,
                                                   obj[i].intrusion)]]
    /\ UNCHANGED <<dirs, instance_counter, evalNo>>

NextFormula ==
    \E i \in Insts :
        \/ PenalizedSea(i)
        \/ PenalizedMass(i)

SpecFormula == InitFormula /\ [][NextFormula]_vars

Computed(i, key) == obj[i].pc = "done" /\ obj[i].key = key

\* C20 - penalized_sea is -(absorbed_energy / mass) when the intrusion is
\* at most 60, 60 itself included, and 100 * (intrusion - 60) when it is
\* above 60, whatever the mass, the absorbed energy and the intrusion
C20_PenalizedSeaFormula ==
    \A i \in Insts :
        Computed(i, "penalized_sea") =>
            IF obj[i].intrusion <= 60
            THEN FracEq(obj[i].val, Frac(-obj[i].absorbed_energy, obj[i].mass))
            ELSE FracEq(obj[i].val, Frac(100 * (obj[i].intrusion - 60), 1))

\* penalized_sea computed at an intrusion of exactly 60 with energy absorbed
C20_Witness ==
    \E i \in Insts :
        /\ Computed(i, "penalized_sea")
        /\ obj[i].intrusion = 60
        /\ obj[i].absorbed_energy > 0
        /\ obj[i].val.n < 0

\* C21 - penalized_mass is the mass when the intrusion is at most 50, 50
\* itself included, and 4.25952 + 10 * (intrusion / 50 - 1) when it is
\* above 50
C21_PenalizedMassFormula ==
    \A i \in Insts :
        Computed(i, "penalized_mass") =>
            IF obj[i].intrusion <= 50
            THEN FracEq(obj[i].val, Frac(obj[i].mass, 1))
            \* 4.25952 + (intrusion - 50) / 5, over the denominator 15625
            ELSE FracEq(obj[i].val,
                        Reduce(Frac(66555 + 3125 * (obj[i].intrusion - 50),
                                    15625)))

\* penalized_mass computed at an intrusion of exactly 50
C21_Witness ==
    \E i \in Insts :
        /\ Computed(i, "penalized_mass")
        /\ obj[i].intrusion = 50
        /\ obj[i].val = Frac(obj[i].mass, 1)

(***************************************************************************)
(* linear_mapping_variable: the map from the search space to a variable's  *)
(* physical range, in exact fractions                                      *)
(***************************************************************************)
EncodeRes == 2     \* the search-space values offered are multiples of 1 / EncodeRes

FracMul(p, q) == Reduce(Frac(p.n * q.n, p.d * q.d))

\* p / q for q > 0
FracDiv(p, q) == Reduce(Frac(p.n * q.d, p.d * q.n))

FracSub(p, q) == FracAdd(p, Neg(q))

FracLeq(p, q) == p.n * q.d <= q.n * p.d

\* the ranges declared by StarBox and CrashTube; (0.7, 3) is (7/10, 3)
DeclaredRanges ==
    {<<Frac(60, 1), Frac(120, 1)>>, <<Frac(0, 1), Frac(30, 1)>>,
     <<Frac(7, 10), Frac(3, 1)>>, <<Frac(-4, 1), Frac(4, 1)>>,
     <<Frac(-10, 1), Frac(10, 1)>>, <<Frac(0, 1), Frac(4, 1)>>}

SearchValues ==
    {Reduce(Frac(k, EncodeRes)) :
        k \in (search_space[1] * EncodeRes)..(search_space[2] * EncodeRes)}

\* variant: the variable is not shifted by the lower end of the search space
linear_mapping_variable_unshifted(search_space_variable, problem_space_range) ==
    LET lower == problem_space_range[1]
        upper == problem_space_range[2]
        scale == FracDiv(FracSub(upper, lower),
                         Frac(search_space[2] - search_space[1], 1))
    IN  FracAdd(lower, FracMul(search_space_variable, scale))

linear_mapping_variable(search_space_variable, problem_space_range) ==
    LET lower == problem_space_range[1]
        upper == problem_space_range[2]
        scale == FracDiv(FracSub(upper, lower),
                         Frac(search_space[2] - search_space[1], 1))
    IN  FracAdd(lower,
                FracMul(FracSub(search_space_variable, Frac(search_space[1], 1)),
                        scale))

\* two search-space values x <= y and the range of the variable they are for
InitEncode ==
    /\ \E r \in DeclaredRanges, x \in SearchValues, y \in SearchValues :
          /\ FracLeq(x, y)
          /\ obj = [i \in Insts |->
                       [pc |-> "inputs", range |-> r, x |-> x, y |-> y,
                        fx |-> NoFrac, fy |-> NoFrac]]
    /\ dirs = [d \in DirNames |-> NoDir]
    /\ instance_counter = [f \in Families |-> 1]
    /\ evalNo = 0

\* mapped_var = self.linear_mapping_variable(var, self.variable_ranges[i])
Encode(i) ==
    /\ obj[i].pc = "inputs"
    /\ obj' = [obj EXCEPT ![i] =
                  [@ EXCEPT !.pc = "done",
                            !.fx = linear_mapping_variable(obj[i].x, obj[i].range),
                            !.fy = linear_mapping_variable(obj[i].y, obj[i].range)]]
    /\ UNCHANGED <<dirs, instance_counter, evalNo>>

NextEncode ==
    \E i \in Insts :
        \/ Encode(i)

SpecEncode == InitEncode /\ [][NextEncode]_vars

\* C22 - the map sends -5 to the lower bound of the range, 5 to the upper
\* bound and 0 to the midpoint, is non-decreasing, and so stays within
\* [lower, upper] for every value of the search space
C22_AffineMap ==
    \A i \in Insts :
        obj[i].pc = "done" =>
            LET lower == obj[i].range[1]
                upper == obj[i].range[2]
            IN  /\ obj[i].x = Frac(-5, 1) => obj[i].fx = lower
                /\ obj[i].x = Frac(5, 1) => obj[i].fx = upper
                /\ obj[i].x = Frac(0, 1) =>
                       FracEq(FracScale(2, obj[i].fx), FracAdd(lower, upper))
                /\ FracLeq(obj[i].fx, obj[i].fy)
                /\ FracLeq(lower, obj[i].fx) /\ FracLeq(obj[i].fx, upper)

\* 0 and 5 mapped into (60, 120): 90 and 120
C22_Witness ==
    \E i \in Insts :
        /\ obj[i].pc = "done"
        /\ obj[i].range = <<Frac(60, 1), Frac(120, 1)>>
        /\ obj[i].x = Frac(0, 1) /\ obj[i].fx = Frac(90, 1)
        /\ obj[i].y = Frac(5, 1) /\ obj[i].fy = Frac(120, 1)

(***************************************************************************)
(* Evaluations whose caller supplies a known id: the n-th __call__ of the  *)
(* process passes SuppliedId(n)                                            *)
(***************************************************************************)
SuppliedId(n) == MaxDir + 1 - n

ExplicitConstruct(i) == ConstructFrom(i, Requests)

ExplicitCall(i) == CallWith(i, MaxEvals, Vectors, {SuppliedId(evalNo + 1)})

NextExplicit ==
    \E i \in Insts :
        \/ ExplicitConstruct(i)
        \/ ExplicitCall(i)
        \/ MassStep(i)
        \/ AbsorbedEnergyStep(i)
        \/ IntrusionStep(i)
        \/ PeakForceStep(i)
        \/ MeanForceStep(i)
        \/ NanStep(i)
        \/ Return(i)

SpecExplicit == Init /\ [][NextExplicit]_vars

\* C23 - under the explicit identity policy deck_id is the id the caller
\* supplied from the head of __call__ to its end and after it, whatever
\* the requested metrics and whichever of generate_input_deck,
\* run_simulation, load_output_data_frame and mass_calculation have run
C23_ExplicitIdKept ==
    \A i \in Insts :
        (Built(i) /\ ~obj[i].seq /\ obj[i].curEval > 0) =>
            obj[i].deck_id = SuppliedId(obj[i].curEval)

\* a second explicit evaluation of a list that returned after a starter
\* run and a full run
C23_Witness ==
    \E i \in Insts :
        /\ ~obj[i].seq
        /\ obj[i].curEval = 2
        /\ Returned(i)
        /\ obj[i].starterRuns = 1
        /\ obj[i].fullRuns = 1
        /\ obj[i].deck_id = SuppliedId(2)
        /\ obj[i].wsName = DirNameOf("StarBox", SuppliedId(2))

\* C24 - once the full stage has run (sim_status = 2) the starter summary of
\* the current evaluation is in its workspace, and a mass request made
\* then is served from that summary with no further run of the solver
C24_MassServedAfterFullStage ==
    [][\A i \in Insts :
          (obj[i].pc = "busy" /\ obj[i].todo # <<>> /\ HeadOp(obj[i]) = "mass"
             /\ obj[i].sim_status = 2 /\ obj'[i] # obj[i]) =>
              /\ dirs[obj[i].wsName].out = obj[i].curEval
              /\ obj'[i].starterRuns = obj[i].starterRuns
              /\ obj'[i].fullRuns = obj[i].fullRuns
              /\ obj'[i].outcome # "raised"
              /\ Len(obj'[i].result) = Len(obj[i].result) + 1
              /\ obj'[i].result[Len(obj'[i].result)].val.src = {obj[i].curEval}]_vars

(***************************************************************************)
(* StarBox._generate_variable_ranges_map and the encoding loop of          *)
(* generate_input_deck                                                     *)
(***************************************************************************)
MaxRangeDim == 7     \* largest StarBox dimension whose table is built

R_60_120 == <<Frac(60, 1), Frac(120, 1)>>

R_0_30 == <<Frac(0, 1), Frac(30, 1)>>

R_07_3 == <<Frac(7, 10), Frac(3, 1)>>

\* the literal variable_ranges_map
variable_ranges_map(dimension) ==
    CASE dimension = 1 -> <<R_60_120>>
      [] dimension = 2 -> <<R_60_120, R_60_120>>
      [] dimension = 3 -> <<R_60_120, R_60_120, R_07_3>>
      [] dimension = 4 -> <<R_60_120, R_60_120, R_0_30, R_0_30>>
      [] dimension = 5 -> <<R_60_120, R_60_120, R_0_30, R_0_30, R_07_3>>

\* for _ in range(n): base_ranges.append((0.7, 3))
RECURSIVE AppendThickness(_, _)
AppendThickness(base_ranges, n) ==
    IF n <= 0 THEN base_ranges
    ELSE AppendThickness(Append(base_ranges, R_07_3), n - 1)

\* variant: one thickness range fewer is appended
_generate_variable_ranges_map_short(dimension) ==
    IF dimension > 0 /\ dimension <= 5
    THEN variable_ranges_map(dimension)
    ELSE AppendThickness(variable_ranges_map(5), dimension - 6)

_generate_variable_ranges_map(dimension) ==
    IF dimension > 0 /\ dimension <= 5
    THEN variable_ranges_map(dimension)
    ELSE AppendThickness(variable_ranges_map(5), dimension - 5)

\* fem_space_variable_array of generate_input_deck
fem_space_variable_array(variable_array, variable_ranges) ==
    [k \in 1..Len(variable_array) |->
        linear_mapping_variable(Frac(variable_array[k], 1), variable_ranges[k])]

\* a StarBox dimension and a design vector of that length
InitRanges ==
    /\ \E d \in 1..MaxRangeDim :
          \E x \in [1..d -> {search_space[1], 0, search_space[2]}] :
              obj = [i \in Insts |->
                        [pc |-> "inputs", dimension |-> d, variable_array |-> x,
                         variable_ranges |-> <<>>, fem |-> <<>>]]
    /\ dirs = [d \in DirNames |-> NoDir]
    /\ instance_counter = [f \in Families |-> 1]
    /\ evalNo = 0

\* StarBox.__init__ builds the table, generate_input_deck encodes with it;
\* variable_ranges[i] raises IndexError where the table is too short
EncodeVector(i) ==
    /\ obj[i].pc = "inputs"
    /\ LET table == _generate_variable_ranges_map(obj[i].dimension)
       IN  obj' = [obj EXCEPT ![i] =
                      IF Len(table) < Len(obj[i].variable_array)
                      THEN [@ EXCEPT !.pc = "raised", !.variable_ranges = table]
                      ELSE [@ EXCEPT !.pc = "done", !.variable_ranges = table,
                                     !.fem = fem_space_variable_array(
                                                 obj[i].variable_array, table)]]
    /\ UNCHANGED <<dirs, instance_counter, evalNo>>

NextRanges ==
    \E i \in Insts :
        \/ EncodeVector(i)

SpecRanges == InitRanges /\ [][NextRanges]_vars

\* the range the StarBox documentation declares for slot k of dimension d
DeclaredRange(d, k) ==
    IF d = 3 /\ k = 3 THEN R_07_3
    ELSE IF k <= 2 THEN R_60_120
    ELSE IF k <= 4 THEN R_0_30
    ELSE R_07_3

\* C25 - the StarBox table of dimension d is the declared list of d ranges
\* (for d > 5 the five ranges followed by d - 5 thickness ranges), its
\* length is d, and a component -5 is encoded as the lower bound of its
\* slot, so the all -5 vector gives [60, 60, 0, 0, 0.7] for d = 5
C25_StarBoxRanges ==
    \A i \in Insts :
        obj[i].pc # "inputs" =>
            LET d == obj[i].dimension
            IN  /\ obj[i].pc = "done"
                /\ Len(obj[i].variable_ranges) = d
                /\ \A k \in 1..d : obj[i].variable_ranges[k] = DeclaredRange(d, k)
                /\ Len(obj[i].fem) = d
                /\ \A k \in 1..d :
                      obj[i].variable_array[k] = -5 =>
                          obj[i].fem[k] = DeclaredRange(d, k)[1]

\* the all -5 vector of dimension 5 encoded
C25_Witness ==
    \E i \in Insts :
        /\ obj[i].pc = "done"
        /\ obj[i].dimension = 5
        /\ obj[i].variable_array = <<-5, -5, -5, -5, -5>>
        /\ obj[i].fem = <<Frac(60, 1), Frac(60, 1), Frac(0, 1), Frac(0, 1),
                          Frac(7, 10)>>

(***************************************************************************)
(* CrashTube: the ranges of the design components and the trigger groups   *)
(* CrashTubeMesh builds from the encoded vector                            *)
(***************************************************************************)
CrashTubeMaxDim == 30

\* patterns = [(-4, 4), (-10, 10), (0, 4)]
patterns == <<<<Frac(-4, 1), Frac(4, 1)>>, <<Frac(-10, 1), Frac(10, 1)>>,
              <<Frac(0, 1), Frac(4, 1)>>>>

\* [patterns[i % 3] for i in range(dim)]
CrashTube_generate_variable_ranges_map(dimension) ==
    [k \in 1..dimension |-> patterns[((k - 1) % 3) + 1]]

\* default_parameters['trigger_height']
trigger_height == Frac(3, 1)

Repeat(v, n) == [k \in 1..n |-> v]

\* the loop over range(num_vars), from component i on
RECURSIVE TriggerLoopSwapped(_, _, _, _)
TriggerLoopSwapped(t, variable_array, i, num_vars) ==
    IF i >= num_vars THEN t
    ELSE LET group_index == i \div 3
             role_index == i % 3
             v == variable_array[i + 1]
             t1 == IF role_index = 0
                   THEN [t EXCEPT !.positions[group_index + 1] = v]
                   ELSE IF role_index = 1
                   THEN [t EXCEPT !.depths[group_index + 1] = v]
                   ELSE [t EXCEPT !.heights[group_index + 1] = v]
         IN  TriggerLoopSwapped(t1, variable_array, i + 1, num_vars)

RECURSIVE TriggerLoop(_, _, _, _)
TriggerLoop(t, variable_array, i, num_vars) ==
    IF i >= num_vars THEN t
    ELSE LET group_index == i \div 3
             role_index == i % 3
             v == variable_array[i + 1]
             t1 == IF role_index = 0
                   THEN [t EXCEPT !.depths[group_index + 1] = v]
                   ELSE IF role_index = 1
                   THEN [t EXCEPT !.positions[group_index + 1] = v]
                   ELSE [t EXCEPT !.heights[group_index + 1] = v]
         IN  TriggerLoop(t1, variable_array, i + 1, num_vars)

NoTriggers == [positions |-> <<>>, depths |-> <<>>, heights |-> <<>>, exc |-> "none"]

\* variant: depth and position components are exchanged
determine_triggers_swapped(variable_array) ==
    LET dimension == Len(variable_array)
        n == IF dimension <= 15 THEN 5 ELSE 10
        start == [NoTriggers EXCEPT !.positions = Repeat(Frac(0, 1), n),
                                    !.depths = Repeat(Frac(0, 1), n),
                                    !.heights = Repeat(trigger_height, n)]
        t == TriggerLoopSwapped(start, variable_array, 0, dimension)
    IN  IF dimension < 1 \/ dimension > CrashTubeMaxDim
        THEN [NoTriggers EXCEPT !.exc = "ValueError"]
        ELSE IF dimension <= 15
        THEN [t EXCEPT !.positions = @ \o @, !.depths = @ \o @,
                       !.heights = @ \o @]
        ELSE t

\* CrashTubeMesh._determine_trigger_depths_heights_and_position
_determine_trigger_depths_heights_and_position(variable_array) ==
    LET dimension == Len(variable_array)
        n == IF dimension <= 15 THEN 5 ELSE 10
        start == [NoTriggers EXCEPT !.positions = Repeat(Frac(0, 1), n),
                                    !.depths = Repeat(Frac(0, 1), n),
                                    !.heights = Repeat(trigger_height, n)]
        t == TriggerLoop(start, variable_array, 0, dimension)
    IN  IF dimension < 1 \/ dimension > CrashTubeMaxDim
        THEN [NoTriggers EXCEPT !.exc = "ValueError"]
        ELSE IF dimension <= 15
        THEN [t EXCEPT !.positions = @ \o @, !.depths = @ \o @,
                       !.heights = @ \o @]
        ELSE t

\* a CrashTube dimension and a design vector that is 0 but for one component
InitTube ==
    /\ \E d \in 1..(CrashTubeMaxDim + 1), j \in 1..(CrashTubeMaxDim + 1),
          v \in SearchValues :
          /\ j <= d
          /\ obj = [i \in Insts |->
                       [pc |-> "inputs", dimension |-> d,
                        variable_array |-> [k \in 1..d |->
                                               IF k = j THEN v ELSE Frac(0, 1)],
                        fem |-> <<>>, triggers |-> NoTriggers]]
    /\ dirs = [d \in DirNames |-> NoDir]
    /\ instance_counter = [f \in Families |-> 1]
    /\ evalNo = 0

\* generate_input_deck encodes the vector, _write_input_file builds the mesh
BuildTriggers(i) ==
    /\ obj[i].pc = "inputs"
    /\ LET ranges == CrashTube_generate_variable_ranges_map(obj[i].dimension)
           fem == [k \in 1..obj[i].dimension |->
                      linear_mapping_variable(obj[i].variable_array[k], ranges[k])]
           t == _determine_trigger_depths_heights_and_position(fem)
       IN  obj' = [obj EXCEPT ![i] =
                      [@ EXCEPT !.pc = IF t.exc = "none" THEN "done" ELSE "raised",
                                !.fem = fem, !.triggers = t]]
    /\ UNCHANGED <<dirs, instance_counter, evalNo>>

NextTube ==
    \E i \in Insts :
        \/ BuildTriggers(i)

SpecTube == InitTube /\ [][NextTube]_vars

\* the physical range declared for a role: depth, position, height
RoleRange(role) ==
    IF role = 0 THEN <<Frac(-4, 1), Frac(4, 1)>>
    ELSE IF role = 1 THEN <<Frac(-10, 1), Frac(10, 1)>>
    ELSE <<Frac(0, 1), Frac(4, 1)>>

\* what slot (role, group) of the first trigger set must hold for obj[i]
ExpectedSlot(self, role, g) ==
    LET c == 3 * g + role
    IN  IF c < self.dimension
        THEN linear_mapping_variable(self.variable_array[c + 1], RoleRange(role))
        ELSE IF role = 2 THEN Frac(3, 1) ELSE Frac(0, 1)

C27_SetterKeepsRecognized ==
    \A i \in Insts :
        (Built(i) /\ obj[i].request.kind = "list") =>
            obj[i].output_data.names = SelectSeq(obj[i].request.names, Recognized)

\* C28 - a __call__ that returns hands back a scalar for a requested name
\* and a sequence with one value per requested name for a requested list
\* or tuple: never None
C28_NeverReturnsNone ==
    \A i \in Insts :
        Returned(i) =>
            /\ obj[i].ret.kind \in {"scalar", "list"}
            /\ obj[i].ret.kind = "scalar" => Len(obj[i].ret.vals) = 1
            /\ obj[i].output_data.kind \in {"list", "tuple"} =>
                  /\ obj[i].ret.kind = "list"
                  /\ Len(obj[i].ret.vals) = Len(obj[i].output_data.names)

\* the __call__ before was rejected by the validation of its vector
Rejected(self) ==
    /\ self.curEval > 0
    /\ self.outcome = "raised"
    /\ self.err = "ValueError"
    /\ ~(self.arg.lenOk /\ self.arg.rangeOk)

\* C29 - under the sequential policy a __call__ rejected by the validation
\* of its vector leaves deck_id as it was, and the next __call__ that is
\* accepted uses the workspace the rejected one would have used
C29_RejectedCallKeepsId ==
    [][\A i \in Insts :
          (obj[i].seq /\ obj'[i].curEval # obj[i].curEval) =>
              /\ ~(obj'[i].arg.lenOk /\ obj'[i].arg.rangeOk) =>
                    /\ Rejected(obj'[i])
                    /\ obj'[i].deck_id = obj[i].deck_id
              /\ (Rejected(obj[i]) /\ obj'[i].arg.lenOk /\ obj'[i].arg.rangeOk) =>
                    obj'[i].wsName = DirNameOf("StarBox", obj[i].idBefore)]_vars

\* a second __call__, rejected after the first returned, with the id the
\* first one left
C29_Witness ==
    \E i \in Insts :
        /\ obj[i].seq
        /\ obj[i].curEval = 2
        /\ Rejected(obj[i])
        /\ obj[i].deck_id = 2
        /\ obj[i].idBefore = 2

(***************************************************************************)
(* ThreePointBendingMesh.generate_thickness_profiles: the five rib bins    *)
(* the design components are placed in                                     *)
(***************************************************************************)
\* the fixed thickness 1.7
DefaultThickness == Frac(17, 10)

ThinRib == Frac(1, 1)

ThickRib == Frac(2, 1)

\* the cases of one to four components
PadToFive(v) ==
    IF Len(v) = 1 THEN <<v[1], v[1], v[1], v[1], v[1]>>
    ELSE IF Len(v) = 2
    THEN <<DefaultThickness, DefaultThickness, DefaultThickness, v[1], v[2]>>
    ELSE IF Len(v) = 3
    THEN <<v[1], DefaultThickness, DefaultThickness, v[2], v[3]>>
    ELSE IF Len(v) = 4
    THEN <<DefaultThickness, v[1], v[2], v[3], v[4]>>
    ELSE v

\* for i, val in enumerate(variable_array): bins[i % 5].append(val) while
\* i + 1 <= limit
RECURSIVE BinLoop(_, _, _, _)
BinLoop(bins, v, i, limit) ==
    IF i >= Len(v) \/ ~(i + 1 <= limit) THEN bins
    ELSE BinLoop([bins EXCEPT ![(i % 5) + 1] = Append(@, v[i + 1])],
                 v, i + 1, limit)

\* the components left after the rounds of five
AssignRest(bins, unassigned_variables) ==
    LET u == unassigned_variables
    IN  IF Len(u) = 1 THEN [bins EXCEPT ![1] = Append(@, u[1])]
        ELSE IF Len(u) = 2
        THEN [bins EXCEPT ![4] = Append(@, u[1]), ![5] = Append(@, u[2])]
        ELSE IF Len(u) = 3
        THEN [bins EXCEPT ![1] = Append(@, u[1]), ![4] = Append(@, u[2]),
                          ![5] = Append(@, u[3])]
        ELSE IF Len(u) = 4
        THEN [bins EXCEPT ![2] = Append(@, u[1]), ![3] = Append(@, u[2]),
                          ![4] = Append(@, u[3]), ![5] = Append(@, u[4])]
        ELSE bins

\* variant: the rounds of five stop one component early
generate_thickness_profiles_early(given) ==
    LET dimension == Len(given)
        variable_array == PadToFive(given)
        multiplier == Len(variable_array) \div 5
        bins == BinLoop(<<<<>>, <<>>, <<>>, <<>>, <<>>>>, variable_array, 0,
                        5 * multiplier - 1)
    IN  IF dimension > 5
        THEN AssignRest(bins, SubSeq(variable_array, 5 * multiplier + 1,
                                     Len(variable_array)))
        ELSE bins

\* the bins generate_thickness_profiles interpolates from
generate_thickness_profiles(given) ==
    LET dimension == Len(given)
        variable_array == PadToFive(given)
        multiplier == Len(variable_array) \div 5
        bins == BinLoop(<<<<>>, <<>>, <<>>, <<>>, <<>>>>, variable_array, 0,
                        5 * multiplier)
    IN  IF dimension > 5
        THEN AssignRest(bins, SubSeq(variable_array, 5 * multiplier + 1,
                                     Len(variable_array)))
        ELSE bins

\* a ThreePointBending dimension and a vector with one thick rib value
InitBins ==
    /\ \E d \in 1..ThreePointBendingMaxDim, j \in 1..ThreePointBendingMaxDim :
          /\ j <= d
          /\ obj = [i \in Insts |->
                       [pc |-> "inputs", dimension |-> d,
                        variable_array |-> [k \in 1..d |->
                                               IF k = j THEN ThickRib ELSE ThinRib],
                        bins |-> <<>>]]
    /\ dirs = [d \in DirNames |-> NoDir]
    /\ instance_counter = [f \in Families |-> 1]
    /\ evalNo = 0

\* THICKNESS_MAPS = self.generate_thickness_profiles()
FillBins(i) ==
    /\ obj[i].pc = "inputs"
    /\ obj' = [obj EXCEPT ![i] =
                  [@ EXCEPT !.pc = "done",
                            !.bins = generate_thickness_profiles(
                                         obj[i].variable_array)]]
    /\ UNCHANGED <<dirs, instance_counter, evalNo>>

NextBins ==
    \E i \in Insts :
        \/ FillBins(i)

SpecBins == InitBins /\ [][NextBins]_vars

\* how often value v occurs in sequence s
Count(s, v) == Cardinality({k \in 1..Len(s) : s[k] = v})

CountInBins(bins, v) ==
    Count(bins[1], v) + Count(bins[2], v) + Count(bins[3], v)
        + Count(bins[4], v) + Count(bins[5], v)

\* C30 - for dimensions 5..40 every component is in exactly one of the five
\* bins (the bin sizes sum to the dimension, no value dropped or doubled)
\* and every bin holds at least one value; for dimensions 1..4 every bin
\* holds exactly one value, a component or the default 1.7
C30_ThicknessBins ==
    \A i \in Insts :
        obj[i].pc = "done" =>
            LET d == obj[i].dimension
                b == obj[i].bins
            IN  /\ Len(b) = 5
                /\ d >= 5 =>
                      /\ \A n \in 1..5 : Len(b[n]) >= 1
                      /\ Len(b[1]) + Len(b[2]) + Len(b[3]) + Len(b[4])
                             + Len(b[5]) = d
                      /\ CountInBins(b, ThickRib) = 1
                      /\ CountInBins(b, ThinRib) = d - 1
                /\ d <= 4 =>
                      \A n \in 1..5 :
                          /\ Len(b[n]) = 1
                          /\ \/ b[n][1] = DefaultThickness
                             \/ \E k \in 1..d : b[n][1] = obj[i].variable_array[k]

\* dimension 8: one round of five and three components left over, the
\* last of them the thick one, placed in the fifth bin
C30_Witness ==
    \E i \in Insts :
        /\ obj[i].pc = "done"
        /\ obj[i].dimension = 8
        /\ obj[i].variable_array[8] = ThickRib
        /\ obj[i].bins[5] = <<ThinRib, ThickRib>>
        /\ Len(obj[i].bins[1]) = 2 /\ Len(obj[i].bins[2]) = 1

====
